---------------------------- MODULE Spec2Model ----------------------------
(***************************************************************************)
(* Model of storage/ndb/src/common/portlib/NdbTCP.cpp: the address         *)
(* resolver (Ndb_getInAddr6), the address formatter (Ndb_inet_ntop), the   *)
(* endpoint string codec (Ndb_split_string_address_port and                *)
(* Ndb_combine_address_port) and the socket liveness probe                 *)
(* (Ndb_check_socket_hup).                                                 *)
(*                                                                         *)
(* Text is a sequence of one-character strings, NUL stands for the byte    *)
(* '\0'.  Binary addresses are sequences of integers 0..255.  Memory is a  *)
(* sequence of bytes addressed from 0 as in C (see At).                    *)
(***************************************************************************)
EXTENDS Integers, Sequences, FiniteSets

VARIABLES
    call,        \* which function this behaviour exercises
    pc,          \* position inside that function
    \* ---- Ndb_getInAddr6 (and the CHECK driver that formats the result)
    gai_ok,      \* getaddrinfo() returned 0
    ai_list,     \* the candidate list getaddrinfo produced
    listState,   \* "unalloc" | "live" | "freed"
    ai_pref,     \* index into ai_list of the preferred candidate, 0 = nullptr
    dst,         \* the caller's struct in6_addr, 16 bytes
    dst0,        \* dst as it was when the call started
    dstWritten,  \* the byte positions (1..16) of dst the call has written
    ret,         \* return value of the function
    frees,       \* number of freeaddrinfo() calls
    reads,       \* reads of list elements while the list was live
    staleReads,  \* reads of list elements while the list was not live
    buf1,        \* CHECK's text buffer after Ndb_inet_ntop
    \* ---- Ndb_split_string_address_port / Ndb_combine_address_port
    arg,         \* the input string, without its terminator
    tail,        \* the bytes that follow arg's terminating NUL in memory
    tailMapped,  \* FALSE: the page after the terminator is not readable
    hostlen, servlen,
    host, serv,  \* the caller's output buffers
    host0, serv0,\* the buffers as they were when the call started
    maxRead,     \* highest index of the arg memory that was read (-1: none)
    port,        \* the port handed to combine
    combined,    \* the text combine produced
    \* ---- Ndb_inet_ntop
    af, src, dst_size,
    mem,         \* the readable memory at dst: dst_size bytes of the caller's
                 \* buffer, then what follows
    writable,    \* how many bytes of mem, from dst on, may be written
    mem0,        \* mem as it was when the call started
    gni_fail,    \* getnameinfo() fails for a reason other than the size
    touched,     \* highest index of mem read or written (-1: none)
    \* ---- Ndb_check_socket_hup
    strategy,    \* "poll" (HAVE_POLL) | "select"
    os,          \* what the operating system answers
    hup          \* the probe's result

resolveVars == <<gai_ok, ai_list, listState, ai_pref, dst, dst0, dstWritten,
                 frees, reads, staleReads, buf1>>
splitVars   == <<arg, tail, tailMapped, hostlen, servlen, host, serv, host0,
                 serv0, maxRead, port, combined>>
ntopVars    == <<af, src, dst_size, mem, writable, mem0, gni_fail, touched>>
hupVars     == <<strategy, os, hup>>
vars        == <<call, pc, ret, resolveVars, splitVars, ntopVars, hupVars>>

----------------------------------------------------------------------------
(* Bounds of the model *)

MaxCand == 3     \* longest candidate list
MaxLen  == 4     \* longest exhaustively enumerated input string
MaxCap  == 3     \* largest hostlen / servlen
MaxTail == 2     \* most non-NUL bytes after the input's terminator
MaxBuf  == 9     \* largest small dst_size tried for Ndb_inet_ntop
BigBuf  == 48    \* a dst_size that holds every numeric text (>= 46)
Slack   == 8     \* bytes readable behind the dst buffer, when any are
MaxFd   == 3     \* largest socket descriptor

----------------------------------------------------------------------------
(* C strings and memory *)

NUL == "NUL"

Max(a, b) == IF a >= b THEN a ELSE b
Min(a, b) == IF a <= b THEN a ELSE b

\* m[i] with C's 0-based indexing
At(m, i) == m[i + 1]

Take(s, n) == SubSeq(s, 1, Min(n, Len(s)))

\* strlen(m + from): distance from index `from` to the next NUL, or to the
\* end of the readable memory m when no NUL precedes it
RECURSIVE StrLenFrom(_, _)
StrLenFrom(m, from) ==
    IF from >= Len(m) \/ At(m, from) = NUL THEN 0
    ELSE 1 + StrLenFrom(m, from + 1)

\* The C string that starts at index `from`
CStrFrom(m, from) == SubSeq(m, from + 1, from + StrLenFrom(m, from))
CStr(m) == CStrFrom(m, 0)

\* strchr(m + from, c): index of the first c before the terminator, -1 = nullptr
RECURSIVE StrChr(_, _, _)
StrChr(m, from, c) ==
    IF from >= Len(m) \/ At(m, from) = NUL THEN -1
    ELSE IF At(m, from) = c THEN from
    ELSE StrChr(m, from + 1, c)

\* memcpy/strcpy effect: bytes written at index `at` of m
Overwrite(m, at, bytes) ==
    [i \in 1..Len(m) |->
        IF i - 1 >= at /\ i - 1 < at + Len(bytes) THEN bytes[i - at] ELSE m[i]]

\* strncpy(m, s, n) where s is the source C string (without terminator):
\* min(n, strlen(s)) characters, then NUL padding up to n bytes
StrNCpy(m, s, n) ==
    Overwrite(m, 0, [i \in 1..n |-> IF i <= Len(s) THEN s[i] ELSE NUL])

Fill(n, c) == [i \in 1..n |-> c]

----------------------------------------------------------------------------
(* Numeric rendering: getnameinfo(..., NI_NUMERICHOST), the collaborator   *)
(* Ndb_inet_ntop calls.  Its text is that of the C library's inet_ntop.    *)

Digits == <<"0", "1", "2", "3", "4", "5", "6", "7", "8", "9",
            "a", "b", "c", "d", "e", "f">>

\* printf("%d") / ("%u") of a non-negative number
RECURSIVE Dec(_)
Dec(n) == IF n < 10 THEN <<Digits[n + 1]>>
          ELSE Dec(n \div 10) \o <<Digits[(n % 10) + 1]>>

\* printf("%x")
RECURSIVE Hex(_)
Hex(n) == IF n < 16 THEN <<Digits[n + 1]>>
          ELSE Hex(n \div 16) \o <<Digits[(n % 16) + 1]>>

\* dotted decimal of 4 address bytes
inet_ntop4(b) ==
    Dec(b[1]) \o <<".">> \o Dec(b[2]) \o <<".">> \o Dec(b[3]) \o <<".">> \o Dec(b[4])

\* the eight 16-bit words of a 16-byte address, indexed 0..7
Words(a) == [i \in 0..7 |-> a[2 * i + 1] * 256 + a[2 * i + 2]]

RECURSIVE ZeroRun(_, _)
ZeroRun(w, i) == IF i > 7 \/ w[i] # 0 THEN 0 ELSE 1 + ZeroRun(w, i + 1)

\* the longest run of zero words (the first one among equals), [base, len];
\* base = -1 when no run has two words
BestRun(w) ==
    LET starts == {i \in 0..7 : w[i] = 0 /\ (i = 0 \/ w[i - 1] # 0)}
        longest == CHOOSE n \in {ZeroRun(w, i) : i \in starts} :
                       \A i \in starts : ZeroRun(w, i) <= n
        first == CHOOSE i \in starts :
                     /\ ZeroRun(w, i) = longest
                     /\ \A j \in starts : ZeroRun(w, j) = longest => i <= j
    IN  IF starts = {} \/ longest < 2
        THEN [base |-> -1, len |-> 0]
        ELSE [base |-> first, len |-> longest]

RECURSIVE Emit6(_, _, _, _)
Emit6(a, w, best, i) ==
    IF i > 7
    THEN IF best.base # -1 /\ best.base + best.len = 8 THEN <<":">> ELSE <<>>
    ELSE IF best.base # -1 /\ i >= best.base /\ i < best.base + best.len
    THEN (IF i = best.base THEN <<":">> ELSE <<>>) \o Emit6(a, w, best, i + 1)
    ELSE (IF i # 0 THEN <<":">> ELSE <<>>) \o
         (IF /\ i = 6
             /\ best.base = 0
             /\ (best.len = 6 \/ (best.len = 5 /\ w[5] = 65535))
          THEN inet_ntop4(SubSeq(a, 13, 16))
          ELSE Hex(w[i]) \o Emit6(a, w, best, i + 1))

\* numeric text of a 16-byte IPv6 address
inet_ntop6(a) == Emit6(a, Words(a), BestRun(Words(a)), 0)

\* getnameinfo(sa, salen, dst, dst_size, NULL, 0, NI_NUMERICHOST) writing the
\* text into m: nonzero and m untouched when it fails or the text with its
\* terminator does not fit
getnameinfo(text, m, n, fail) ==
    IF fail \/ Len(text) + 1 > n
    THEN [ret |-> "EAI_FAIL", mem |-> m, hi |-> -1]
    ELSE [ret |-> "0", mem |-> Overwrite(m, 0, text \o <<NUL>>), hi |-> Len(text)]

----------------------------------------------------------------------------
(* Ndb_inet_ntop *)

mapped_prefix == <<":", ":", "f", "f", "f", "f", ":">>

\* strncmp(mapped_prefix, m, 7): index of the first byte that differs or lies
\* behind the readable memory m, 7 if there is none
MismatchAt(m) ==
    LET diff == {i \in 0..6 : i >= Len(m) \/ At(m, i) # At(mapped_prefix, i)}
    IN  IF diff = {} THEN 7 ELSE CHOOSE i \in diff : \A j \in diff : i <= j

\* strncpy(dst, "null", dst_size); dst[dst_size-1] = 0;
WriteNull(m, n) ==
    Overwrite(StrNCpy(m, <<"n", "u", "l", "l">>, n), n - 1, <<NUL>>)

\* The outcome of Ndb_inet_ntop(a, s, m, n, w, fail) on the readable memory
\* m, whose first n bytes are the caller's buffer and whose first w >= n bytes
\* may be written: the memory afterwards and the highest index that was read
\* or written.  fault: the call never returned, because strncmp or strlen
\* read behind the readable memory (index >= Len(m)) or memmove wrote
\* behind the writable memory (index >= w).  The process is gone then; mem
\* keeps the memory before the faulting call, and what memmove had stored
\* before the signal is not recorded.
Ndb_inet_ntop(a, s, m, n, w, fail) ==
    IF a = "AF_INET"
    THEN LET g == getnameinfo(inet_ntop4(SubSeq(s, 1, 4)), m, n, fail)
         IN  IF g.ret # "0"
             THEN [fault |-> FALSE, mem |-> WriteNull(g.mem, n),
                   hi |-> Max(g.hi, n - 1)]
             ELSE [fault |-> FALSE, mem |-> g.mem, hi |-> g.hi]
    ELSE IF a = "AF_INET6"
    THEN LET g == getnameinfo(inet_ntop6(s), m, n, fail)
             k == MismatchAt(g.mem)
             cmpHi == Min(k, 6)
             len == StrLenFrom(g.mem, 0)
             moved == IF k = 7
                      THEN Overwrite(g.mem, 0, SubSeq(g.mem, 8, len) \o <<NUL>>)
                      ELSE g.mem
             hi == Max(g.hi, IF k = 7 THEN len ELSE cmpHi)
         IN  IF k < 7 /\ k >= Len(g.mem)
             THEN [fault |-> TRUE, mem |-> g.mem, hi |-> k]
             ELSE IF k = 7 /\ len >= Len(g.mem)
             THEN [fault |-> TRUE, mem |-> g.mem, hi |-> len]
             ELSE IF k = 7 /\ len - 7 >= w
             THEN [fault |-> TRUE, mem |-> g.mem, hi |-> len]
             ELSE IF g.ret # "0"
             THEN [fault |-> FALSE, mem |-> WriteNull(moved, n),
                   hi |-> Max(hi, n - 1)]
             ELSE [fault |-> FALSE, mem |-> moved, hi |-> hi]
    ELSE [fault |-> FALSE, mem |-> WriteNull(m, n), hi |-> n - 1]

----------------------------------------------------------------------------
(* Address resolver *)

\* Mutant: the two 0xff bytes are never set
Ndb_make_ipv6_from_ipv4_noFF(a4) == Fill(12, 0) \o a4

\* struct in6_addr of an IPv4 address: ::ffff:a.b.c.d
Ndb_make_ipv6_from_ipv4(a4) == Fill(10, 0) \o Fill(2, 255) \o a4

\* The scan of get_preferred_address from list position i on, pref being the
\* candidate kept so far (0 = nullptr).  Returns the position chosen.
\* Mutant: a later IPv6 candidate replaces the one kept so far
RECURSIVE ScanPreferred_lastIPv6(_, _, _)
ScanPreferred_lastIPv6(l, i, pref) ==
    IF i > Len(l) THEN pref
    ELSE IF l[i].family = "AF_INET" THEN i
    ELSE IF l[i].family = "AF_INET6" /\ l[i].scope_id = 0
    THEN ScanPreferred_lastIPv6(l, i + 1, i)
    ELSE ScanPreferred_lastIPv6(l, i + 1, pref)

RECURSIVE ScanPreferred(_, _, _)
ScanPreferred(l, i, pref) ==
    IF i > Len(l) THEN pref
    ELSE IF l[i].family = "AF_INET" THEN i
    ELSE IF pref = 0 /\ l[i].family = "AF_INET6" /\ l[i].scope_id = 0
    THEN ScanPreferred(l, i + 1, i)
    ELSE ScanPreferred(l, i + 1, pref)

get_preferred_address(l) == ScanPreferred(l, 1, 0)

\* Mutant: the destination is cleared before the candidate is examined
get_in6_addr_clearFirst(d, l, p) ==
    IF p = 0 THEN [ret |-> -1, dst |-> Fill(16, 0), written |-> 1..16]
    ELSE IF l[p].family = "AF_INET"
    THEN [ret |-> 0, dst |-> Overwrite(d, 0, Ndb_make_ipv6_from_ipv4(l[p].addr)),
          written |-> 1..16]
    ELSE [ret |-> 0, dst |-> Overwrite(d, 0, l[p].addr), written |-> 1..16]

\* get_in6_addr(d, src) with src = l[p], or nullptr when p = 0
get_in6_addr(d, l, p) ==
    IF p = 0 THEN [ret |-> -1, dst |-> d, written |-> {}]
    ELSE IF l[p].family = "AF_INET"
    THEN [ret |-> 0, dst |-> Overwrite(d, 0, Ndb_make_ipv6_from_ipv4(l[p].addr)),
          written |-> 1..16]
    ELSE IF l[p].family = "AF_INET6"
    THEN [ret |-> 0, dst |-> Overwrite(d, 0, l[p].addr), written |-> 1..16]
    ELSE [ret |-> -1, dst |-> d, written |-> {}]

\* The statements of Ndb_getInAddr6 in program order
Ndb_getInAddr6_steps == <<"getaddrinfo", "select", "convert", "free", "return">>

\* Mutant: the list is released before the preferred candidate is converted
StepAfter_freeEarly(p) ==
    IF p = "getaddrinfo" THEN "select"
    ELSE IF p = "select" THEN "free"
    ELSE IF p = "free" THEN "convert"
    ELSE IF p = "convert" THEN "return"
    ELSE "returned"

\* The statement that follows statement p
StepAfter(p) ==
    LET i == CHOOSE j \in 1..Len(Ndb_getInAddr6_steps) : Ndb_getInAddr6_steps[j] = p
    IN  IF i = Len(Ndb_getInAddr6_steps) THEN "returned"
        ELSE Ndb_getInAddr6_steps[i + 1]

\* A read of a list element: counted as stale when the list is not live
ReadList(n) ==
    IF listState = "live"
    THEN reads' = reads + n /\ UNCHANGED staleReads
    ELSE staleReads' = staleReads + n /\ UNCHANGED reads

----------------------------------------------------------------------------
(* Endpoint string codec *)

\* The memory the input pointer refers to: the string, its terminator, and
\* whatever lies behind it
ArgMem(a, t) == a \o <<NUL>> \o t \o <<NUL>>

\* Ndb_split_string_address_port(arg, host, hostlen, serv, servlen) on the
\* memory m: the return value, the buffers afterwards and the highest index
\* of m that was read.  fault: a read hit unmapped memory and the call never
\* returned.
Ndb_split_string_address_port(m, mapped, h, hl, s, sl) ==
    LET end == StrLenFrom(m, 0)                \* index of the terminator
        fail(hi) == [fault |-> FALSE, ret |-> -1, host |-> h, serv |-> s, hi |-> hi]
    IN
    IF At(m, 0) = "["
    THEN LET check_closing_bracket == StrChr(m, 0, "]")
             port_colon == check_closing_bracket + 1
         IN
         IF check_closing_bracket = -1 THEN fail(end)
         ELSE IF At(m, port_colon) = ":" \/ At(m, port_colon) = NUL
         THEN LET copy_bytes == port_colon - 2
                  servStr == CStrFrom(m, port_colon + 1)
                  hi == port_colon + 1 + Len(servStr)
                  first_colon == StrChr(m, 1, ":")
              IN
              IF copy_bytes >= hl THEN fail(port_colon)
              ELSE IF At(m, port_colon) = NUL /\ ~mapped
              THEN [fault |-> TRUE, ret |-> -1, host |-> h, serv |-> s,
                    hi |-> port_colon + 1]
              ELSE IF Len(servStr) >= sl THEN fail(hi)
              ELSE IF first_colon = -1 \/ first_colon >= port_colon THEN fail(hi)
              ELSE [fault |-> FALSE, ret |-> 0,
                    host |-> Overwrite(Overwrite(h, 0, SubSeq(m, 2, copy_bytes + 1)),
                                       copy_bytes, <<NUL>>),
                    serv |-> IF At(m, port_colon) = ":"
                             THEN StrNCpy(s, servStr, sl)
                             ELSE Overwrite(s, 0, <<NUL>>),
                    hi |-> hi]
         ELSE fail(port_colon)
    ELSE LET port_colon == StrChr(m, 0, ":")
         IN
         IF port_colon # -1 /\ StrChr(m, port_colon + 1, ":") = -1
         THEN LET copy_bytes == port_colon
                  servStr == CStrFrom(m, port_colon + 1)
              IN
              IF copy_bytes >= hl \/ Len(servStr) >= sl THEN fail(end)
              ELSE [fault |-> FALSE, ret |-> 0,
                    host |-> Overwrite(Overwrite(h, 0, SubSeq(m, 1, copy_bytes)),
                                       port_colon, <<NUL>>),
                    serv |-> Overwrite(StrNCpy(s, servStr, sl), sl - 1, <<NUL>>),
                    hi |-> end]
         ELSE IF end >= hl THEN fail(end)
         ELSE [fault |-> FALSE, ret |-> 0,
               host |-> Overwrite(StrNCpy(h, CStr(m), hl), hl - 1, <<NUL>>),
               serv |-> Overwrite(s, 0, <<NUL>>),
               hi |-> end]

\* snprintf(buf, bufsize, fmt, ...): the text, cut to bufsize - 1 characters
snprintf(bufsize, text) == Take(text, bufsize - 1)

\* Ndb_combine_address_port(buf, bufsize, host, port); h = "nullptr" or a text
Ndb_combine_address_port(bufsize, h, p) ==
    IF h = "nullptr"
    THEN snprintf(bufsize, <<"*", ":">> \o Dec(p))
    ELSE IF \A i \in 1..Len(h) : h[i] # ":"
    THEN snprintf(bufsize, h \o <<":">> \o Dec(p))
    ELSE snprintf(bufsize, <<"[">> \o h \o <<"]", ":">> \o Dec(p))

----------------------------------------------------------------------------
(* Socket liveness probe *)

\* Ndb_check_socket_hup under the compile-time strategy st; o is what the
\* operating system answers to poll()/select() and getsockopt(SO_ERROR)
Ndb_check_socket_hup(st, o) ==
    IF st = "poll"
    THEN IF o.revents \cap {"POLLHUP", "POLLERR"} # {} THEN 1 ELSE 0
    ELSE IF o.r < 0 THEN 1
    ELSE IF o.in_errorfds THEN 1
    ELSE IF o.getsockopt # 0 THEN 1
    ELSE IF o.s_err # 0 THEN 1
    ELSE 0

----------------------------------------------------------------------------
(* Inputs *)

Loopback6 == Fill(15, 0) \o <<1>>                        \* ::1
LinkLocal6 == <<254, 128>> \o Fill(13, 0) \o <<1>>       \* fe80::1

V4Addrs == {<<127, 0, 0, 1>>, <<192, 168, 10, 255>>, <<0, 0, 0, 0>>}
V6Addrs == {Loopback6, LinkLocal6}

\* The elements getaddrinfo may put in a list: IPv4, IPv6 with and without a
\* scope, and an element of another family
Candidates ==
    [family : {"AF_INET"}, addr : V4Addrs, scope_id : {0}]
    \cup [family : {"AF_INET6"}, addr : V6Addrs, scope_id : {0, 2}]
    \cup [family : {"AF_OTHER"}, addr : {<<>>}, scope_id : {0}]

CandidateLists == UNION {[1..k -> Candidates] : k \in 0..MaxCand}

\* A byte of the caller's struct in6_addr that the call has not stored: it
\* holds whatever the slot held before, any of 0..255, which
\* Ndb_getInAddr6 never reads.  The value lies outside the bytes 0..255 the
\* code stores, so a stored byte always differs from it.
Old == -1

\* The text Ndb_inet_ntop renders from bytes that were never stored: some
\* address text, not known and not constrained
OldText == <<"?">>

Alphabet == {"[", "]", ":", "a", "1"}

\* Every string of at most MaxLen characters, and some longer endpoints
ExtraArgs == {<<"[", ":", "]", ":", "1">>,
              <<"[", ":", ":", "1", "]", ":", "1", "1">>,
              <<"[", "a", ":", "1", "]", ":", "1", "]">>,
              <<"a", "1", "a", ":", "1", "1">>,
              <<"[", ":", ":", "1", "]">>}
Args == UNION {[1..k -> Alphabet] : k \in 0..MaxLen} \cup ExtraArgs

Tails == {Fill(k, "x") : k \in 0..MaxTail}

Ports == {0, 1, 11, 1186, 65535}

Families == {"AF_INET", "AF_INET6", "AF_UNSPEC"}

AddrOfWords(w) ==
    [i \in 1..16 |-> IF i % 2 = 1 THEN w[(i - 1) \div 2] \div 256
                     ELSE w[(i - 1) \div 2] % 256]

WordVals == {0, 1, 65535}

\* Addresses written out: a mapped 127.0.0.1 and 192.168.10.255, a global
\* and a link-local address, and 0:0:ffff:1:2:3:4:5
SampleAddrs ==
    {Ndb_make_ipv6_from_ipv4(<<127, 0, 0, 1>>),
     Ndb_make_ipv6_from_ipv4(<<192, 168, 10, 255>>),
     <<32, 1, 13, 184>> \o Fill(8, 0) \o <<127, 10, 0, 1>>,
     LinkLocal6,
     <<0, 0, 0, 0, 255, 255, 0, 1, 0, 2, 0, 3, 0, 4, 0, 5>>}

WordAddrs == {AddrOfWords(w) : w \in [0..7 -> WordVals]}

\* Buffer contents before the call: the first k characters of "::ffff:",
\* then a filler, and a NUL in the last byte of the memory
Pattern(k, filler, len) ==
    [i \in 1..len |-> IF i = len THEN NUL
                      ELSE IF i <= k THEN mapped_prefix[i] ELSE filler]

\* The same without the closing NUL
OpenPattern(k, filler, len) ==
    [i \in 1..len |-> IF i <= k THEN mapped_prefix[i] ELSE filler]

\* The readable memory that starts at a buffer of n bytes: the buffer alone
\* (it ends where the mapping ends) or with Slack more bytes behind it
BufferMemories(n) ==
    {Pattern(k, filler, n + s) : k \in 0..7, filler \in {NUL, "x"}, s \in {0, Slack}}
    \cup {OpenPattern(k, filler, n + s) :
              k \in 0..7, filler \in {NUL, "x"}, s \in {0, Slack}}

PollFlags == {"POLLIN", "POLLOUT", "POLLERR", "POLLHUP", "POLLNVAL"}

\* poll(): -1 leaves revents as initialised (0); 0 reports nothing; 1 reports
\* a non-empty set of events
PollAnswers ==
    [fd : 0..MaxFd, r : {-1, 0}, revents : {{}}, in_errorfds : {FALSE},
     getsockopt : {0}, s_err : {0}]
    \cup [fd : 0..MaxFd, r : {1}, revents : (SUBSET PollFlags) \ {{}},
          in_errorfds : {FALSE}, getsockopt : {0}, s_err : {0}]

\* select() and getsockopt(SO_ERROR); 104 is ECONNRESET.  r counts the ready
\* descriptors; after a failed select() the sets are unspecified
SelectAnswers ==
    {o \in [fd : 0..MaxFd, r : -1..3, revents : {{}}, in_errorfds : BOOLEAN,
            getsockopt : {0, -1}, s_err : {0, 104}] :
        /\ o.r = 0 => ~o.in_errorfds
        /\ o.r = 3 => o.in_errorfds
        /\ o.getsockopt = -1 => o.s_err = 0}

----------------------------------------------------------------------------
(* Initial states: one call, with its inputs; the other functions idle *)

ResolveIdle ==
    /\ gai_ok = FALSE /\ ai_list = <<>> /\ listState = "unalloc" /\ ai_pref = 0
    /\ dst = <<>> /\ dst0 = <<>> /\ dstWritten = {}
    /\ frees = 0 /\ reads = 0 /\ staleReads = 0 /\ buf1 = <<>>

SplitIdle ==
    /\ arg = <<>> /\ tail = <<>> /\ tailMapped = TRUE
    /\ hostlen = 1 /\ servlen = 1
    /\ host = <<>> /\ serv = <<>> /\ host0 = <<>> /\ serv0 = <<>>
    /\ maxRead = -1 /\ port = 0 /\ combined = <<>>

NtopIdle ==
    /\ af = "AF_UNSPEC" /\ src = <<>> /\ dst_size = 1
    /\ mem = <<>> /\ writable = 0 /\ mem0 = <<>> /\ gni_fail = FALSE
    /\ touched = -1

HupIdle ==
    /\ strategy = "poll" /\ os = [r |-> 0] /\ hup = 0

InitResolve ==
    /\ call = "Ndb_getInAddr6" /\ pc = "getaddrinfo" /\ ret = 0
    /\ \/ gai_ok = TRUE /\ ai_list \in CandidateLists
       \/ gai_ok = FALSE /\ ai_list = <<>>
    /\ listState = "unalloc" /\ ai_pref = 0
    /\ dst = Fill(16, Old) /\ dst0 = dst /\ dstWritten = {}
    /\ frees = 0 /\ reads = 0 /\ staleReads = 0 /\ buf1 = <<>>
    /\ SplitIdle /\ NtopIdle /\ HupIdle

InitSplit ==
    /\ call = "Ndb_split_string_address_port" /\ pc = "start" /\ ret = 0
    /\ arg \in Args
    /\ \/ tailMapped = TRUE /\ tail \in Tails
       \/ tailMapped = FALSE /\ tail = <<>>
    /\ hostlen \in 1..MaxCap /\ servlen \in 1..MaxCap
    /\ host = Fill(hostlen, "?") /\ serv = Fill(servlen, "?")
    /\ host0 = host /\ serv0 = serv
    /\ maxRead = -1 /\ port = 0 /\ combined = <<>>
    /\ ResolveIdle /\ NtopIdle /\ HupIdle

InitNtop ==
    /\ call = "Ndb_inet_ntop" /\ pc = "start" /\ ret = 0
    /\ af \in Families
    /\ gni_fail \in BOOLEAN
    /\ \/ /\ dst_size = BigBuf
          /\ src \in WordAddrs \cup SampleAddrs
          /\ mem = Pattern(0, "x", dst_size + Slack)
       \/ /\ dst_size \in 1..MaxBuf
          /\ src \in SampleAddrs
          /\ mem \in BufferMemories(dst_size)
    /\ writable \in {dst_size, Len(mem)}
    /\ mem0 = mem /\ touched = -1
    /\ ResolveIdle /\ SplitIdle /\ HupIdle

InitHup ==
    /\ call = "Ndb_check_socket_hup" /\ pc = "start" /\ ret = 0
    /\ \/ strategy = "poll" /\ os \in PollAnswers
       \/ strategy = "select" /\ os \in SelectAnswers
    /\ hup = 0
    /\ ResolveIdle /\ SplitIdle /\ NtopIdle

----------------------------------------------------------------------------
(* Ndb_getInAddr6, statement by statement, and CHECK's formatting of the    *)
(* address it returned                                                      *)

GetAddrInfo ==
    /\ call = "Ndb_getInAddr6" /\ pc = "getaddrinfo"
    /\ IF gai_ok
       THEN /\ listState' = "live"
            /\ pc' = StepAfter(pc)
            /\ UNCHANGED ret
       ELSE /\ ret' = -1
            /\ pc' = "returned"
            /\ UNCHANGED listState
    /\ UNCHANGED <<call, gai_ok, ai_list, ai_pref, dst, dst0, dstWritten, frees,
                   reads, staleReads, buf1, splitVars, ntopVars, hupVars>>

SelectPreferred ==
    /\ call = "Ndb_getInAddr6" /\ pc = "select"
    /\ ai_pref' = get_preferred_address(ai_list)
    /\ ReadList(IF ai_pref' # 0 /\ ai_list[ai_pref'].family = "AF_INET"
                THEN ai_pref' ELSE Len(ai_list))
    /\ pc' = StepAfter(pc)
    /\ UNCHANGED <<call, ret, gai_ok, ai_list, listState, dst, dst0, dstWritten,
                   frees, buf1, splitVars, ntopVars, hupVars>>

Convert ==
    /\ call = "Ndb_getInAddr6" /\ pc = "convert"
    /\ LET r == get_in6_addr(dst, ai_list, ai_pref)
       IN  /\ ret' = r.ret
           /\ dst' = r.dst
           /\ dstWritten' = r.written
    /\ ReadList(IF ai_pref = 0 THEN 0 ELSE 1)
    /\ pc' = StepAfter(pc)
    /\ UNCHANGED <<call, gai_ok, ai_list, listState, ai_pref, dst0, frees, buf1,
                   splitVars, ntopVars, hupVars>>

FreeAddrInfo ==
    /\ call = "Ndb_getInAddr6" /\ pc = "free"
    /\ listState' = "freed"
    /\ frees' = frees + 1
    /\ pc' = StepAfter(pc)
    /\ UNCHANGED <<call, ret, gai_ok, ai_list, ai_pref, dst, dst0, dstWritten,
                   reads, staleReads, buf1, splitVars, ntopVars, hupVars>>

Return ==
    /\ call = "Ndb_getInAddr6" /\ pc = "return"
    /\ pc' = StepAfter(pc)
    /\ UNCHANGED <<call, ret, resolveVars, splitVars, ntopVars, hupVars>>

\* CHECK: Ndb_inet_ntop(AF_INET6, &addr, buf1, sizeof(buf1))
Format ==
    /\ call = "Ndb_getInAddr6" /\ pc = "returned"
    /\ buf1' = IF \E i \in 1..16 : dst[i] = Old
               THEN OldText
               ELSE Ndb_inet_ntop("AF_INET6", dst,
                                  Pattern(0, "x", BigBuf + Slack),
                                  BigBuf, BigBuf, FALSE).mem
    /\ pc' = "formatted"
    /\ UNCHANGED <<call, ret, gai_ok, ai_list, listState, ai_pref, dst, dst0,
                   dstWritten, frees, reads, staleReads, splitVars, ntopVars,
                   hupVars>>

NextResolve ==
    GetAddrInfo \/ SelectPreferred \/ Convert \/ FreeAddrInfo \/ Return \/ Format

----------------------------------------------------------------------------
(* The endpoint codec: split, then combine what split returned *)

Split ==
    /\ call = "Ndb_split_string_address_port" /\ pc = "start"
    /\ LET r == Ndb_split_string_address_port(ArgMem(arg, tail), tailMapped,
                                              host, hostlen, serv, servlen)
       IN  /\ ret' = IF r.fault THEN ret ELSE r.ret
           /\ host' = r.host
           /\ serv' = r.serv
           /\ maxRead' = r.hi
           /\ pc' = IF r.fault THEN "SIGSEGV" ELSE "split"
    /\ UNCHANGED <<call, arg, tail, tailMapped, hostlen, servlen, host0, serv0,
                   port, combined, resolveVars, ntopVars, hupVars>>

Combine ==
    /\ call = "Ndb_split_string_address_port" /\ pc = "split" /\ ret = 0
    /\ \E p \in Ports :
          /\ port' = p
          /\ combined' = Ndb_combine_address_port(BigBuf, CStr(host), p)
    /\ pc' = "combined"
    /\ UNCHANGED <<call, ret, arg, tail, tailMapped, hostlen, servlen, host, serv,
                   host0, serv0, maxRead, resolveVars, ntopVars, hupVars>>

NextSplit == Split \/ Combine

----------------------------------------------------------------------------
(* Ndb_inet_ntop *)

Ntop ==
    /\ call = "Ndb_inet_ntop" /\ pc = "start"
    /\ LET r == Ndb_inet_ntop(af, src, mem, dst_size, writable, gni_fail)
       IN  /\ mem' = r.mem
           /\ touched' = r.hi
           /\ pc' = IF r.fault THEN "SIGSEGV" ELSE "done"
    /\ UNCHANGED <<call, ret, af, src, dst_size, writable, mem0, gni_fail,
                   resolveVars, splitVars, hupVars>>

NextNtop == Ntop

----------------------------------------------------------------------------
(* Ndb_check_socket_hup *)

CheckSocketHup ==
    /\ call = "Ndb_check_socket_hup" /\ pc = "start"
    /\ hup' = Ndb_check_socket_hup(strategy, os)
    /\ pc' = "done"
    /\ UNCHANGED <<call, ret, strategy, os, resolveVars, splitVars, ntopVars>>

NextHup == CheckSocketHup

----------------------------------------------------------------------------
(* Specifications *)

Init == InitResolve \/ InitSplit \/ InitNtop \/ InitHup
Next == NextResolve \/ NextSplit \/ NextNtop \/ NextHup

Spec        == Init /\ [][Next]_vars
SpecResolve == InitResolve /\ [][NextResolve]_vars
SpecSplit   == InitSplit /\ [][NextSplit]_vars
SpecNtop    == InitNtop /\ [][NextNtop]_vars
SpecHup     == InitHup /\ [][NextHup]_vars
SpecOutputs == (InitResolve \/ InitSplit) /\ [][NextResolve \/ NextSplit]_vars

----------------------------------------------------------------------------
(* Properties of the resolver *)

Returned == call = "Ndb_getInAddr6" /\ pc \in {"returned", "formatted"}

Least(S) == CHOOSE i \in S : \A j \in S : i <= j

IPv4At(l) == {i \in 1..Len(l) : l[i].family = "AF_INET"}
UnscopedIPv6At(l) ==
    {i \in 1..Len(l) : l[i].family = "AF_INET6" /\ l[i].scope_id = 0}

MappedBytes(a4) == <<0, 0, 0, 0, 0, 0, 0, 0, 0, 0, 255, 255>> \o a4

\* C1: after a successful lookup Ndb_getInAddr6 selects the first IPv4
\* candidate of the list if there is one, whatever precedes it; otherwise
\* the first IPv6 candidate with scope identifier zero; with neither it
\* returns -1.  It returns -1 whenever the lookup fails.
C1_PreferredSelection ==
    Returned =>
        IF ~gai_ok THEN ret = -1
        ELSE IF IPv4At(ai_list) # {}
        THEN /\ ret = 0
             /\ ai_pref = Least(IPv4At(ai_list))
             /\ dst = MappedBytes(ai_list[Least(IPv4At(ai_list))].addr)
        ELSE IF UnscopedIPv6At(ai_list) # {}
        THEN /\ ret = 0
             /\ ai_pref = Least(UnscopedIPv6At(ai_list))
             /\ dst = ai_list[Least(UnscopedIPv6At(ai_list))].addr
        ELSE ret = -1 /\ ai_pref = 0

\* An IPv4 candidate was selected although two unscoped IPv6 candidates
\* precede it
C1_Witness ==
    /\ Returned /\ gai_ok /\ ret = 0
    /\ ai_pref = 3
    /\ ai_list[3].family = "AF_INET"
    /\ ai_list[1].family = "AF_INET6" /\ ai_list[1].scope_id = 0
    /\ ai_list[2].family = "AF_INET6" /\ ai_list[2].scope_id = 0

\* C3: when Ndb_split_string_address_port returns -1 the host and service
\* buffers are unchanged; when Ndb_getInAddr6 returns -1 the 16-byte
\* destination is unchanged; when Ndb_getInAddr6 returns 0 all 16 bytes of
\* the destination have been written.
C3_NoOutputOnFailure ==
    /\ (call = "Ndb_split_string_address_port" /\ pc = "split" /\ ret = -1)
           => (host = host0 /\ serv = serv0)
    /\ (Returned /\ ret = -1) => (dst = dst0 /\ dstWritten = {})
    /\ (Returned /\ ret = 0) => dstWritten = 1..16

\* The lookup succeeded with a non-empty list that has no usable candidate,
\* and the destination still holds the bytes it held before the call
C3_Witness ==
    /\ Returned /\ gai_ok /\ ret = -1
    /\ Len(ai_list) > 0
    /\ dst = Fill(16, Old)

\* Decimal text of a byte, digit by digit
ByteText(b) ==
    IF b < 10 THEN <<Digits[b + 1]>>
    ELSE IF b < 100 THEN <<Digits[(b \div 10) + 1], Digits[(b % 10) + 1]>>
    ELSE <<Digits[(b \div 100) + 1], Digits[((b \div 10) % 10) + 1],
           Digits[(b % 10) + 1]>>

Dotted(a4) ==
    ByteText(a4[1]) \o <<".">> \o ByteText(a4[2]) \o <<".">> \o
    ByteText(a4[3]) \o <<".">> \o ByteText(a4[4])

\* C6: when the selected candidate is the IPv4 address a.b.c.d,
\* Ndb_getInAddr6 stores 10 bytes 0x00, 2 bytes 0xff and the 4 address
\* bytes, and Ndb_inet_ntop(AF_INET6) of that value yields "a.b.c.d", the
\* text Ndb_inet_ntop(AF_INET) yields for the 4 bytes; a selected IPv6
\* candidate's 16 bytes are stored verbatim.
C6_ResolveThenFormat ==
    (call = "Ndb_getInAddr6" /\ pc = "formatted" /\ ret = 0) =>
        LET c == ai_list[ai_pref]
        IN  IF c.family = "AF_INET"
            THEN /\ dst = MappedBytes(c.addr)
                 /\ CStr(buf1) = Dotted(c.addr)
                 /\ CStr(buf1) =
                        CStr(Ndb_inet_ntop("AF_INET", c.addr,
                                           Pattern(0, "x", BigBuf + Slack),
                                           BigBuf, BigBuf, FALSE).mem)
            ELSE dst = c.addr

\* 192.168.10.255 was resolved and formatted
C6_Witness ==
    /\ call = "Ndb_getInAddr6" /\ pc = "formatted" /\ ret = 0
    /\ ai_list[ai_pref].family = "AF_INET"
    /\ ai_list[ai_pref].addr = <<192, 168, 10, 255>>
    /\ CStr(buf1) = <<"1", "9", "2", ".", "1", "6", "8", ".", "1", "0", ".",
                      "2", "5", "5">>

\* C8: when the lookup succeeds the candidate list is released exactly once
\* before Ndb_getInAddr6 returns, and only after selection and conversion
\* have read it for the last time; when the lookup fails the list is
\* neither released nor read.
C8_ListLifetime ==
    call = "Ndb_getInAddr6" =>
        /\ frees <= 1
        /\ staleReads = 0
        /\ (Returned /\ gai_ok) => (frees = 1 /\ listState = "freed")
        /\ listState = "freed" => pc \in {"return", "returned", "formatted"}
        /\ ~gai_ok => (frees = 0 /\ reads = 0 /\ listState = "unalloc")

\* A candidate was selected and converted, and the list has been released
C8_Witness ==
    /\ Returned /\ gai_ok /\ ret = 0
    /\ frees = 1 /\ listState = "freed"
    /\ reads >= 2

----------------------------------------------------------------------------
(* Properties of the endpoint codec *)

\* a without its first n characters
Drop(s, n) == SubSeq(s, n + 1, Len(s))

Colons(a) == {i \in 1..Len(a) : a[i] = ":"}
Has(a, c) == \E i \in 1..Len(a) : a[i] = c
FirstOf(a, c) == Least({i \in 1..Len(a) : a[i] = c})

\* The reference parser: what an input is split into, before capacities
RefSplit(a) ==
    IF Len(a) > 0 /\ a[1] = "["
    THEN IF ~Has(a, "]") THEN [ok |-> FALSE, host |-> <<>>, serv |-> <<>>]
         ELSE LET close == FirstOf(a, "]")
                  h == SubSeq(a, 2, close - 1)
              IN  IF close < Len(a) /\ a[close + 1] # ":"
                  THEN [ok |-> FALSE, host |-> <<>>, serv |-> <<>>]
                  ELSE IF ~Has(h, ":")
                  THEN [ok |-> FALSE, host |-> <<>>, serv |-> <<>>]
                  ELSE [ok |-> TRUE, host |-> h, serv |-> Drop(a, close + 1)]
    ELSE IF Cardinality(Colons(a)) = 1
    THEN [ok |-> TRUE, host |-> SubSeq(a, 1, FirstOf(a, ":") - 1),
          serv |-> Drop(a, FirstOf(a, ":"))]
    ELSE [ok |-> TRUE, host |-> a, serv |-> <<>>]

Terminated(b) == \E i \in 1..Len(b) : b[i] = NUL

\* The call has returned
SplitDone ==
    call = "Ndb_split_string_address_port" /\ pc \in {"split", "combined"}

\* C2: Ndb_split_string_address_port agrees with the reference parser for
\* every input and every capacity >= 1: it returns -1 exactly when the
\* reference rejects the input or the extracted host or service has length
\* >= its capacity; otherwise it returns 0 with the reference's host and
\* service, both NUL-terminated within their capacity.
C2_AgreesWithReference ==
    SplitDone =>
        LET ref == RefSplit(arg)
        IN  IF \/ ~ref.ok
               \/ Len(ref.host) >= hostlen
               \/ Len(ref.serv) >= servlen
            THEN ret = -1
            ELSE /\ ret = 0
                 /\ Terminated(host) /\ CStr(host) = ref.host
                 /\ Terminated(serv) /\ CStr(serv) = ref.serv

\* "[h]": the closing bracket ends the input and h holds a colon
BracketNoPort(a) ==
    /\ Len(a) >= 3
    /\ a[1] = "["
    /\ FirstOf(a \o <<"]">>, "]") = Len(a)
    /\ Has(SubSeq(a, 2, Len(a) - 1), ":")

\* C9: for an input "[h]" that ends at the closing bracket, with a colon in
\* h and len(h) < hostlen, Ndb_split_string_address_port returns 0 with
\* host = h and an empty service, and reads no byte after the input's
\* terminating NUL.
C9_BracketWithoutPort ==
    (SplitDone /\ BracketNoPort(arg) /\ Len(arg) - 2 < hostlen) =>
        /\ ret = 0
        /\ CStr(host) = SubSeq(arg, 2, Len(arg) - 1)
        /\ CStr(serv) = <<>>
        /\ maxRead <= Len(arg)

PortTexts == {Dec(q) : q \in Ports}

\* "h:p"
PlainWithPort(a) ==
    /\ Cardinality(Colons(a)) = 1
    /\ FirstOf(a, ":") > 1
    /\ a[1] # "["
    /\ Drop(a, FirstOf(a, ":")) \in PortTexts

\* "[h6]:p"
BracketWithPort(a) ==
    /\ Len(a) >= 5
    /\ a[1] = "["
    /\ Has(a, "]")
    /\ LET close == FirstOf(a, "]")
       IN  /\ Has(SubSeq(a, 2, close - 1), ":")
           /\ close < Len(a) /\ a[close + 1] = ":"
           /\ Drop(a, close + 1) \in PortTexts

\* "h"
PlainNoPort(a) == Len(a) > 0 /\ Colons(a) = {} /\ a[1] # "["

\* C4: for a well-formed endpoint "h:p" or "[h6]:p" with p the decimal text
\* of a port and buffers large enough, split succeeds and combine of the
\* returned host with that port reproduces the input; for "h" or "[h6]"
\* split yields an empty service and combine with any port q yields "h:q",
\* respectively "[h6]:q".
C4_CodecRoundTrip ==
    LET ref == RefSplit(arg)
        fits == Len(ref.host) < hostlen /\ Len(ref.serv) < servlen
    IN
    /\ (SplitDone /\ fits /\ (PlainWithPort(arg) \/ BracketWithPort(arg))) =>
           /\ ret = 0
           /\ CStr(host) = ref.host /\ CStr(serv) = ref.serv
           /\ (pc = "combined" /\ Dec(port) = CStr(serv)) => combined = arg
    /\ (SplitDone /\ fits /\ (PlainNoPort(arg) \/ BracketNoPort(arg))) =>
           /\ ret = 0
           /\ CStr(serv) = <<>>
           /\ pc = "combined" => combined = arg \o <<":">> \o Dec(port)

----------------------------------------------------------------------------
(* Properties of the formatter *)

RenderingFails ==
    \/ gni_fail
    \/ af = "AF_INET" /\ Len(inet_ntop4(SubSeq(src, 1, 4))) + 1 > dst_size
    \/ af = "AF_INET6" /\ Len(inet_ntop6(src)) + 1 > dst_size

NtopDone == call = "Ndb_inet_ntop" /\ pc = "done"

\* C5: for every family, rendering outcome, buffer content and capacity
\* n >= 1, Ndb_inet_ntop leaves a string whose NUL lies within the first n
\* bytes and touches no byte at index >= n; for another family or a failed
\* rendering the buffer holds the first min(4, n-1) characters of "null".
C5_TerminatedWithinCapacity ==
    NtopDone =>
        /\ \E i \in 0..(dst_size - 1) : At(mem, i) = NUL
        /\ touched < dst_size
        /\ (af \notin {"AF_INET", "AF_INET6"} \/ RenderingFails) =>
               CStr(mem) = Take(<<"n", "u", "l", "l">>, Min(4, dst_size - 1))

IsMapped(a) ==
    /\ \A i \in 1..10 : a[i] = 0
    /\ a[11] = 255 /\ a[12] = 255

\* C10: with family IPv6 and a successful rendering, an IPv4-mapped address
\* is printed as the dotted decimal of its last 4 bytes and every other
\* address as its unmodified numeric IPv6 text.
C10_OnlyMappedIsStripped ==
    (NtopDone /\ af = "AF_INET6" /\ ~RenderingFails) =>
        IF IsMapped(src)
        THEN CStr(mem) = Dotted(SubSeq(src, 13, 16))
        ELSE CStr(mem) = inet_ntop6(src)

----------------------------------------------------------------------------
(* Properties of the liveness probe *)

OsReportsHangup ==
    IF strategy = "poll"
    THEN os.revents \cap {"POLLHUP", "POLLERR"} # {}
    ELSE os.in_errorfds \/ os.s_err # 0

\* C7: under both strategies Ndb_check_socket_hup returns 1 whenever the
\* poll/select call fails or the pending-error query fails, and otherwise
\* returns 1 exactly when the OS reports hangup or error for the socket.
C7_AmbiguousMeansHungUp ==
    (call = "Ndb_check_socket_hup" /\ pc = "done") =>
        IF os.r < 0 \/ (strategy = "select" /\ os.getsockopt # 0)
        THEN hup = 1
        ELSE hup = 1 <=> OsReportsHangup

============================================================================
